---- MODULE Spec2Model ----
(***************************************************************************)
(* Model of slm_lab/agent/memory/replay.py: the Replay experience memory   *)
(* (a circular buffer of transitions with implicit next states and         *)
(* optional combined experience replay) and its subclasses SeqReplay,      *)
(* ConcatReplay and AtariReplay.                                           *)
(*                                                                         *)
(* Python lists are modelled as sequences; a Python index i is the         *)
(* sequence position i + 1.  None is the empty tuple and a present value v *)
(* is the one-element tuple <<v>>.  A raw observation is an integer; a     *)
(* stacked or concatenated observation is a tuple of integers.             *)
(***************************************************************************)
EXTENDS Integers, Sequences, FiniteSets, TLC

\* ------------------------------------------------------------------ bounds
\* largest capacity (memory_spec max_size) explored
MaxSize == 3
\* cap on seen_size, so that the counter stays finite
MaxSeen == 4
\* seq_len / concat_len of the sliding window
WindowLen == 2
\* cap on seen_size for SeqReplay and ConcatReplay, whose stored states are windows
MaxSeenWindow == 2

\* the batch sizes explored: with one index the last index is also the first,
\* with two the first index is drawn freely
BatchSizes == {1, 2}

VARIABLES
    cls,                \* class of the memory object
    max_size,           \* memory_spec max_size
    batch_size,         \* memory_spec batch_size
    use_cer,            \* memory_spec use_cer
    is_venv,            \* body.env.is_venv
    states,             \* self.states
    actions,            \* self.actions
    rewards,            \* self.rewards
    next_states,        \* self.next_states: allocated by reset(), never written
    dones,              \* self.dones
    latest_next_state,  \* self.latest_next_state
    size,               \* self.size
    head,               \* self.head
    seen_size,          \* self.seen_size
    batch_idxs,         \* self.batch_idxs
    state_buffer,       \* self.state_buffer
    ret,                \* the last call: its name, arguments and result
    inserted,           \* history: the add_experience calls since the last reset
    n_inserted          \* history: the number of add_experience calls ever made

vars == <<cls, max_size, batch_size, use_cer, is_venv, states, actions, rewards,
          next_states, dones, latest_next_state, size, head, seen_size, batch_idxs,
          state_buffer, ret, inserted, n_inserted>>

config == <<cls, max_size, batch_size, use_cer, is_venv>>

storage == <<states, actions, rewards, next_states, dones>>

\* ------------------------------------------------------------------ values
None == <<>>

Some(v) == <<v>>

\* a reward is a float: either NaN or a number
NaN == [nan |-> TRUE, v |-> 0]

Num(n) == [nan |-> FALSE, v |-> n]

\* np.isnan(reward)
isnan(reward) == reward.nan

\* np.sign(reward): NaN stays NaN
sign(reward) ==
    IF reward.nan THEN reward
    ELSE IF reward.v > 0 THEN Num(1)
    ELSE IF reward.v < 0 THEN Num(-1)
    ELSE Num(0)

\* x.astype(np.float16) of one non-negative integer below 4096: integers up to
\* 2048 are exact, above that only even integers are representable and an odd
\* one rounds to the neighbour with an even mantissa (a multiple of 4)
Float16(x) ==
    IF x <= 2048 \/ x % 2 = 0 THEN x
    ELSE IF (x + 1) % 4 = 0 THEN x + 1 ELSE x - 1

Windowed(c) == c \in {"SeqReplay", "ConcatReplay"}

\* state.astype(np.float16), elementwise on a stacked or concatenated state
astype_float16(c, state) ==
    IF Windowed(c) THEN [i \in DOMAIN state |-> Float16(state[i])]
    ELSE Float16(state)

\* the calls update() receives from the training loop
Experiences ==
    { [state |-> 1,    action |-> 0, reward |-> Num(5),  next_state |-> 2,    done |-> FALSE],
      [state |-> 2,    action |-> 1, reward |-> Num(-3), next_state |-> 2049, done |-> TRUE],
      [state |-> 2049, action |-> 0, reward |-> NaN,     next_state |-> 1,    done |-> FALSE] }

\* a transition with reward 0, so that AtariReplay sees every sign
ZeroRewardExperience ==
    [state |-> 2, action |-> 0, reward |-> Num(0), next_state |-> 1, done |-> FALSE]

\* the calls update() receives, by class of the memory
Inputs(c) ==
    IF c = "AtariReplay" THEN Experiences \cup {ZeroRewardExperience} ELSE Experiences

\* the raw observation the policy sees: one that float16 cannot represent
RawStates == {2049}

\* ------------------------------------------------------------ sliding window
\* deque(maxlen=...) of the class
buffer_maxlen(c) == IF Windowed(c) THEN WindowLen ELSE 0

\* deque.append on a deque of the given maxlen
deque_append(buf, maxlen, x) ==
    IF maxlen = 0 THEN buf
    ELSE IF Len(buf) < maxlen THEN Append(buf, x)
    ELSE Append(Tail(buf), x)

\* state_buffer.clear() followed by maxlen appends of np.zeros(...)
zero_buffer(c) == [i \in 1..buffer_maxlen(c) |-> 0]

\* Memory.preprocess_append: the window after preprocess_state(state, append)
preprocess_append(c, buf, state, append) ==
    IF append THEN deque_append(buf, buffer_maxlen(c), state) ELSE buf

\* preprocess_state stacking the window with the state appended whatever the
\* append flag says
preprocess_state_always_appending(c, buf, state, append) ==
    IF Windowed(c) THEN deque_append(buf, buffer_maxlen(c), state)
    ELSE state

\* preprocess_state(state, append): the value it returns
preprocess_state(c, buf, state, append) ==
    IF Windowed(c) THEN preprocess_append(c, buf, state, append)
    ELSE state

\* Memory.epi_reset: the window after an episode reset
base_epi_reset(c) == zero_buffer(c)

\* the cap on seen_size, by class of the memory
SeenCap(c) == IF Windowed(c) THEN MaxSeenWindow ELSE MaxSeen

\* ------------------------------------------------------------------ lists
\* [None] * max_size
NoneList(n) == [i \in 1..n |-> None]

\* util.cond_multiget(arr, idxs)
cond_multiget(arr, idxs) == [k \in DOMAIN idxs |-> arr[idxs[k] + 1]]

\* every outcome of np.random.randint(high, size=n), for high > 0
randint(high, n) == [1..n -> 0..(high - 1)]

\* ------------------------------------------------------------------ calls
NoValue == <<>>

\* a call that returned out
Call(op, arg, out) == [op |-> op, arg |-> arg, out |-> out, raised |-> ""]

\* a call that raised an exception
Raised(op, arg, exc) == [op |-> op, arg |-> arg, out |-> NoValue, raised |-> exc]

\* ------------------------------------------------------------------ reset
\* reset() without the line that clears latest_next_state
reset_keeps_latest_next_state ==
    /\ states' = NoneList(max_size)
    /\ actions' = NoneList(max_size)
    /\ rewards' = NoneList(max_size)
    /\ next_states' = NoneList(max_size)
    /\ dones' = NoneList(max_size)
    /\ UNCHANGED latest_next_state
    /\ size' = 0
    /\ head' = -1
    /\ state_buffer' = zero_buffer(cls)

\* reset() without the line that moves head back to -1
reset_keeps_head ==
    /\ states' = NoneList(max_size)
    /\ actions' = NoneList(max_size)
    /\ rewards' = NoneList(max_size)
    /\ next_states' = NoneList(max_size)
    /\ dones' = NoneList(max_size)
    /\ latest_next_state' = None
    /\ size' = 0
    /\ UNCHANGED head
    /\ state_buffer' = zero_buffer(cls)

\* Replay.reset / ConcatReplay.reset
reset ==
    /\ states' = NoneList(max_size)
    /\ actions' = NoneList(max_size)
    /\ rewards' = NoneList(max_size)
    /\ next_states' = NoneList(max_size)
    /\ dones' = NoneList(max_size)
    /\ latest_next_state' = None
    /\ size' = 0
    /\ head' = -1
    /\ state_buffer' = zero_buffer(cls)

\* the state after the constructor of one of the classes
InitOf(classes) ==
    /\ cls \in classes
    /\ max_size \in 1..MaxSize
    /\ batch_size \in BatchSizes
    /\ use_cer \in BOOLEAN
    /\ is_venv \in BOOLEAN
    /\ states = NoneList(max_size)
    /\ actions = NoneList(max_size)
    /\ rewards = NoneList(max_size)
    /\ next_states = NoneList(max_size)
    /\ dones = NoneList(max_size)
    /\ latest_next_state = None
    /\ size = 0
    /\ head = -1
    /\ seen_size = 0
    /\ batch_idxs = None
    /\ state_buffer = zero_buffer(cls)
    /\ ret = Call("__init__", NoValue, NoValue)
    /\ inserted = <<>>
    /\ n_inserted = 0

\* the state after Replay.__init__
Init == InitOf({"Replay"})

\* a call of memory.reset()
Reset ==
    /\ reset
    /\ ret' = Call("reset", NoValue, NoValue)
    /\ inserted' = <<>>
    /\ UNCHANGED <<config, seen_size, batch_idxs, n_inserted>>

\* ------------------------------------------------------------------ update
\* ConcatReplay.epi_reset with the window cleared but not refilled
ConcatReplay_epi_reset_without_refill(buf) == <<>>

\* ConcatReplay.epi_reset after the call of super: "reappend buffer with custom
\* shape", given the window the base class left
ConcatReplay_epi_reset(buf) == zero_buffer("ConcatReplay")

\* Replay.epi_reset / ConcatReplay.epi_reset
epi_reset(state) ==
    /\ state_buffer' = IF cls = "ConcatReplay"
                       THEN ConcatReplay_epi_reset(base_epi_reset(cls))
                       ELSE base_epi_reset(cls)
    /\ UNCHANGED <<storage, latest_next_state, size, head, seen_size>>

\* the head pointer that stays on the last slot instead of wrapping around
moved_head_without_wrap(h, m) == IF h + 1 < m THEN h + 1 ELSE h

\* the head pointer moved backwards
moved_head_backwards(h, m) == (h - 1) % m

\* "Move head pointer. Wrap around if necessary"
moved_head(h, m) == (h + 1) % m

\* the occupied size grown without the capacity test
grown_size_unguarded(s, m) == s + 1

\* the occupied size starting over once the memory is full
grown_size_restarting(s, m) == IF s < m THEN s + 1 ELSE 1

\* "Actually occupied size of memory"
grown_size(s, m) == IF s < m THEN s + 1 ELSE s

\* seen_size counted only while the memory grows
counted_seen_size_while_growing(seen, s, m) == IF s < m THEN seen + 1 ELSE seen

\* self.seen_size += 1, with size as it was before the insert
counted_seen_size(seen, s, m) == seen + 1

\* add_experience keeping the state, not the next state, in latest_next_state
Replay_add_experience_latest_from_state(state, action, reward, next_state, done) ==
    LET new_head == moved_head(head, max_size) IN
    /\ head' = new_head
    /\ states' = [states EXCEPT ![new_head + 1] = Some(astype_float16(cls, state))]
    /\ actions' = [actions EXCEPT ![new_head + 1] = Some(action)]
    /\ rewards' = [rewards EXCEPT ![new_head + 1] = Some(reward)]
    /\ latest_next_state' = Some(astype_float16(cls, state))
    /\ dones' = [dones EXCEPT ![new_head + 1] = Some(done)]
    /\ size' = grown_size(size, max_size)
    /\ seen_size' = counted_seen_size(seen_size, size, max_size)
    /\ UNCHANGED next_states

\* Replay.add_experience
Replay_add_experience(state, action, reward, next_state, done) ==
    LET new_head == moved_head(head, max_size) IN
    /\ head' = new_head
    /\ states' = [states EXCEPT ![new_head + 1] = Some(astype_float16(cls, state))]
    /\ actions' = [actions EXCEPT ![new_head + 1] = Some(action)]
    /\ rewards' = [rewards EXCEPT ![new_head + 1] = Some(reward)]
    /\ latest_next_state' = Some(astype_float16(cls, next_state))
    /\ dones' = [dones EXCEPT ![new_head + 1] = Some(done)]
    /\ size' = grown_size(size, max_size)
    /\ seen_size' = counted_seen_size(seen_size, size, max_size)
    /\ UNCHANGED next_states

\* self.add_experience with AtariReplay passing the reward on unclipped
add_experience_unclipped(state, action, reward, next_state, done) ==
    Replay_add_experience(state, action, reward, next_state, done)

\* self.add_experience: AtariReplay overrides it to clip the reward
add_experience(state, action, reward, next_state, done) ==
    IF cls = "AtariReplay"
    THEN Replay_add_experience(state, action, sign(reward), next_state, done)
    ELSE Replay_add_experience(state, action, reward, next_state, done)

\* update() taking every NaN reward for an episode start, vectorized or not
update_ignoring_venv(e) ==
    IF isnan(e.reward)
    THEN /\ epi_reset(e.next_state)
         /\ UNCHANGED <<inserted, n_inserted>>
    ELSE LET state == preprocess_state(cls, state_buffer, e.state, FALSE)
             buf1 == preprocess_append(cls, state_buffer, e.state, FALSE)
             next_state == preprocess_state(cls, buf1, e.next_state, FALSE)
             buf2 == preprocess_append(cls, buf1, e.next_state, FALSE)
         IN /\ seen_size < SeenCap(cls)
            /\ add_experience(state, e.action, e.reward, next_state, e.done)
            /\ inserted' = Append(inserted,
                   [state |-> state, action |-> e.action, reward |-> e.reward,
                    next_state |-> next_state, done |-> e.done])
            /\ n_inserted' = n_inserted + 1
            /\ state_buffer' = buf2

\* update() preprocessing state and next_state with append left at its default
update_appending(e) ==
    IF ~is_venv /\ isnan(e.reward)
    THEN /\ epi_reset(e.next_state)
         /\ UNCHANGED <<inserted, n_inserted>>
    ELSE LET state == preprocess_state(cls, state_buffer, e.state, TRUE)
             buf1 == preprocess_append(cls, state_buffer, e.state, TRUE)
             next_state == preprocess_state(cls, buf1, e.next_state, TRUE)
             buf2 == preprocess_append(cls, buf1, e.next_state, TRUE)
         IN /\ seen_size < SeenCap(cls)
            /\ add_experience(state, e.action, e.reward, next_state, e.done)
            /\ inserted' = Append(inserted,
                   [state |-> state, action |-> e.action, reward |-> e.reward,
                    next_state |-> next_state, done |-> e.done])
            /\ n_inserted' = n_inserted + 1
            /\ state_buffer' = buf2

\* Replay.update with the arguments of experience e
update(e) ==
    IF ~is_venv /\ isnan(e.reward)
    THEN /\ epi_reset(e.next_state)
         /\ UNCHANGED <<inserted, n_inserted>>
    ELSE LET state == preprocess_state(cls, state_buffer, e.state, FALSE)
             buf1 == preprocess_append(cls, state_buffer, e.state, FALSE)
             next_state == preprocess_state(cls, buf1, e.next_state, FALSE)
             buf2 == preprocess_append(cls, buf1, e.next_state, FALSE)
         IN /\ seen_size < SeenCap(cls)
            /\ add_experience(state, e.action, e.reward, next_state, e.done)
            /\ inserted' = Append(inserted,
                   [state |-> state, action |-> e.action, reward |-> e.reward,
                    next_state |-> next_state, done |-> e.done])
            /\ n_inserted' = n_inserted + 1
            /\ state_buffer' = buf2

\* a call of memory.update(state, action, reward, next_state, done)
Update ==
    \E e \in Inputs(cls) :
        /\ update(e)
        /\ ret' = Call("update", e, NoValue)
        /\ UNCHANGED <<config, batch_idxs>>

\* ------------------------------------------------------------------ sample
\* sample_idxs putting the head at the first position instead of the last
sample_idxs_first(drawn) ==
    IF use_cer THEN [drawn EXCEPT ![1] = head] ELSE drawn

\* Replay.sample_idxs, given what np.random.randint drew
sample_idxs(drawn) ==
    IF use_cer THEN [drawn EXCEPT ![Len(drawn)] = head] ELSE drawn

\* ns_batch_idxs with the guard comparing against max_size instead of size
ns_batch_idxs_guarding_capacity(idxs) ==
    LET plus1 == [k \in DOMAIN idxs |-> idxs[k] + 1]
        latest_ns_locs == {k \in DOMAIN idxs : plus1[k] = max_size}
    IN [k \in DOMAIN idxs |-> IF k \in latest_ns_locs THEN 0 ELSE plus1[k]]

\* ns_batch_idxs as util.cond_multiget receives it in _sample_next_states
ns_batch_idxs(idxs) ==
    LET plus1 == [k \in DOMAIN idxs |-> idxs[k] + 1]
        latest_ns_locs == {k \in DOMAIN idxs : plus1[k] = size}
    IN [k \in DOMAIN idxs |-> IF k \in latest_ns_locs THEN 0 ELSE plus1[k]]

\* _sample_next_states without the final replacement by latest_next_state
sample_next_states_unreplaced(idxs) ==
    cond_multiget(states, ns_batch_idxs(idxs))

\* Replay._sample_next_states
sample_next_states(idxs) ==
    LET plus1 == [k \in DOMAIN idxs |-> idxs[k] + 1]
        latest_ns_locs == {k \in DOMAIN idxs : plus1[k] = size}
        gathered == cond_multiget(states, ns_batch_idxs(idxs))
    IN [k \in DOMAIN idxs |->
            IF k \in latest_ns_locs THEN latest_next_state ELSE gathered[k]]

\* the batch Replay.sample builds for the indices
batch_of(idxs) ==
    [states      |-> cond_multiget(states, idxs),
     actions     |-> cond_multiget(actions, idxs),
     rewards     |-> cond_multiget(rewards, idxs),
     next_states |-> sample_next_states(idxs),
     dones       |-> cond_multiget(dones, idxs)]

\* sample() writing latest_next_state into the placeholder slot of self.states
\* instead of into the gathered copy
sample_writing_storage ==
    /\ size > 0
    /\ \E drawn \in randint(size, batch_size) :
           /\ batch_idxs' = sample_idxs(drawn)
           /\ ret' = Call("sample", NoValue, batch_of(sample_idxs(drawn)))
           /\ states' = IF \E k \in DOMAIN drawn : sample_idxs(drawn)[k] + 1 = size
                         THEN [states EXCEPT ![1] = latest_next_state]
                         ELSE states
    /\ UNCHANGED <<config, actions, rewards, next_states, dones, latest_next_state,
                   size, head, seen_size, state_buffer, inserted, n_inserted>>

\* Replay.sample on a memory that holds something
sample ==
    /\ size > 0
    /\ \E drawn \in randint(size, batch_size) :
           /\ batch_idxs' = sample_idxs(drawn)
           /\ ret' = Call("sample", NoValue, batch_of(sample_idxs(drawn)))
    /\ UNCHANGED <<config, storage, latest_next_state, size, head, seen_size,
                   state_buffer, inserted, n_inserted>>

\* sample() on an empty memory going on without an exception: every index
\* becomes the head and the batch is gathered through Python's negative index
sample_empty_silent ==
    /\ size = 0
    /\ batch_idxs' = [k \in 1..batch_size |-> head]
    /\ ret' = Call("sample", NoValue, NoValue)
    /\ UNCHANGED <<config, storage, latest_next_state, size, head, seen_size,
                   state_buffer, inserted, n_inserted>>

\* Replay.sample on an empty memory: np.random.randint(0, ...) raises
sample_empty ==
    /\ size = 0
    /\ ret' = Raised("sample", NoValue, "ValueError")
    /\ UNCHANGED <<config, storage, latest_next_state, size, head, seen_size,
                   batch_idxs, state_buffer, inserted, n_inserted>>

\* a call of memory.sample()
Sample == sample \/ sample_empty

\* ------------------------------------------------------------------ system
Next == Reset \/ Update \/ Sample

Spec == Init /\ [][Next]_vars

\* ------------------------------------------------------------------ acting
\* the policy's call preprocess_state(state, append=True) on a state first seen
Act ==
    \E s \in RawStates :
        /\ state_buffer' = preprocess_append(cls, state_buffer, s, TRUE)
        /\ ret' = Call("preprocess_state", s,
                       preprocess_state(cls, state_buffer, s, TRUE))
        /\ UNCHANGED <<config, storage, latest_next_state, size, head, seen_size,
                       batch_idxs, inserted, n_inserted>>

\* AtariReplay: the same calls as Replay
InitAtari == InitOf({"AtariReplay"})

SpecAtari == InitAtari /\ [][Next]_vars

\* SeqReplay and ConcatReplay, with the policy acting between the calls
InitWindow ==
    /\ InitOf({"SeqReplay", "ConcatReplay"})
    /\ max_size = 2
    /\ batch_size = 1

NextWindow == Reset \/ Update \/ Sample \/ Act

SpecWindow == InitWindow /\ [][NextWindow]_vars

\* ------------------------------------------------------------------ claims
\* the last call was a sample() that returned a batch
Sampled == ret.op = "sample" /\ ret.raised = ""

\* the step is an update() that inserted a transition
Inserts == ret'.op = "update" /\ Len(inserted') = Len(inserted) + 1

\* what add_experience stores at the head for the call x
Stored(x) ==
    [state  |-> Some(astype_float16(cls, x.state)),
     action |-> Some(x.action),
     reward |-> Some(IF cls = "AtariReplay" THEN sign(x.reward) ELSE x.reward),
     done   |-> Some(x.done)]

\* the transition held in slot i (a Python index)
Slot(i) ==
    [state |-> states[i + 1], action |-> actions[i + 1],
     reward |-> rewards[i + 1], done |-> dones[i + 1]]

\* the transition held in slot i after the step
SlotAfter(i) ==
    [state |-> states'[i + 1], action |-> actions'[i + 1],
     reward |-> rewards'[i + 1], done |-> dones'[i + 1]]

EmptySlot == [state |-> None, action |-> None, reward |-> None, done |-> None]

\* C1: whenever sample() draws the current head, the next_states entry at that
\* batch position is latest_next_state, also after head has wrapped around
C1_HeadResolvesToLatest ==
    Sampled =>
        \A k \in DOMAIN batch_idxs :
            batch_idxs[k] = head => ret.out.next_states[k] = latest_next_state

\* C2: for every drawn index i other than head, the next_states entry is the
\* state stored at slot (i + 1) mod max_size
C2_OthersResolveToSuccessor ==
    Sampled =>
        \A k \in DOMAIN batch_idxs :
            batch_idxs[k] # head =>
                ret.out.next_states[k] = states[((batch_idxs[k] + 1) % max_size) + 1]

\* C3: 0 <= size <= max_size, and after k inserts since the last reset
\* size = min(k, max_size)
C3_SizeIsMinOfInsertsAndCapacity ==
    /\ 0 <= size
    /\ size <= max_size
    /\ size = IF Len(inserted) < max_size THEN Len(inserted) ELSE max_size

C3_Witness ==
    /\ ret.op = "update"
    /\ Len(inserted) > max_size
    /\ size = max_size
    /\ max_size > 1

\* C4: FIFO eviction: the j-th insert since the last reset, while retained, sits
\* at slot (j - 1) mod max_size; the slots hold exactly the last
\* min(k, max_size) inserts; an insert into a full buffer overwrites the oldest
\* retained transition and nothing else; with max_size = 3 four inserts leave
\* head = 0, size = 3 and the states of inserts 4, 2, 3 in slots 0, 1, 2
C4_FifoEviction ==
    /\ [](LET k == Len(inserted) IN
            /\ \A j \in 1..k :
                   j > k - max_size => Slot((j - 1) % max_size) = Stored(inserted[j])
            /\ \A i \in 0..(max_size - 1) : i >= k => Slot(i) = EmptySlot
            /\ (max_size = 3 /\ k = 4) =>
                   /\ head = 0
                   /\ size = 3
                   /\ states = << Stored(inserted[4]).state,
                                  Stored(inserted[2]).state,
                                  Stored(inserted[3]).state >>)
    /\ [][(Inserts /\ size = max_size) =>
            LET oldest == Len(inserted) - max_size + 1 IN
            /\ Slot(head') = Stored(inserted[oldest])
            /\ SlotAfter(head') = Stored(inserted'[Len(inserted')])
            /\ \A i \in 0..(max_size - 1) : i # head' => SlotAfter(i) = Slot(i)]_vars

C4_Witness ==
    /\ max_size = 3
    /\ Len(inserted) = 4
    /\ inserted[1] # inserted[4]
    /\ Slot(0) = Stored(inserted[4])

\* C5: circularity: every insert sets head to (head + 1) mod max_size; after
\* exactly max_size inserts from an empty buffer head = max_size - 1, and the
\* next insert sets head to 0 and overwrites the slot of the first transition
C5_Circularity ==
    /\ [][Inserts => head' = (head + 1) % max_size]_vars
    /\ [](Len(inserted) = max_size => head = max_size - 1)
    /\ [][(Inserts /\ Len(inserted) = max_size) =>
            /\ head' = 0
            /\ Slot(0) = Stored(inserted[1])
            /\ SlotAfter(0) = Stored(inserted'[max_size + 1])]_vars

C5_Witness ==
    /\ Len(inserted) = max_size + 1
    /\ head = 0
    /\ max_size > 1
    /\ ret.op = "update"

\* C6: with use_cer, every sample() of a non-empty memory has the current head
\* as its last index, and the batch's states, actions, rewards and dones at the
\* last position are those stored at head
C6_CerPutsHeadLast ==
    (Sampled /\ use_cer) =>
        /\ batch_idxs[batch_size] = head
        /\ ret.out.states[batch_size] = states[head + 1]
        /\ ret.out.actions[batch_size] = actions[head + 1]
        /\ ret.out.rewards[batch_size] = rewards[head + 1]
        /\ ret.out.dones[batch_size] = dones[head + 1]

C6_Witness ==
    /\ Sampled
    /\ use_cer
    /\ batch_size = 2
    /\ batch_idxs[1] # head
    /\ head # size - 1
    /\ states[head + 1] # states[batch_idxs[1] + 1]

\* C7: sample() of a non-empty memory changes nothing but batch_idxs: size,
\* head, seen_size, latest_next_state and every storage slot stay as they were
C7_SampleIsNonDestructive ==
    [][(ret'.op = "sample" /\ size > 0) =>
          /\ ret'.raised = ""
          /\ UNCHANGED <<size, head, seen_size, latest_next_state,
                         states, actions, rewards, dones>>]_vars

C7_Witness ==
    /\ Sampled
    /\ use_cer
    /\ batch_size = 2
    /\ \E k \in DOMAIN batch_idxs : batch_idxs[k] + 1 = size
    /\ \E k \in DOMAIN batch_idxs : batch_idxs[k] + 1 # size
    /\ states[1] # latest_next_state

\* C8: update() inserts exactly when not (reward is NaN and the environment is
\* not vectorized): on a NaN reward in a non-vectorized environment it resets
\* the episode and leaves size, head, seen_size, latest_next_state and the
\* storage alone; otherwise it advances head and adds one to seen_size
C8_UpdateInsertsUnlessEpisodeStart ==
    [][ret'.op = "update" =>
          IF isnan(ret'.arg.reward) /\ ~is_venv
          THEN /\ UNCHANGED <<size, head, seen_size, latest_next_state,
                              states, actions, rewards, dones, inserted>>
               /\ state_buffer' = zero_buffer(cls)
          ELSE /\ head' = (head + 1) % max_size
               /\ seen_size' = seen_size + 1
               /\ Len(inserted') = Len(inserted) + 1
               /\ SlotAfter(head') = Stored(inserted'[Len(inserted')])]_vars

C8_Witness ==
    /\ ret.op = "update"
    /\ isnan(ret.arg.reward)
    /\ is_venv
    /\ size > 0
    /\ rewards[head + 1] = Some(NaN)
    /\ seen_size = Len(inserted)

\* C9: reset() sets every slot of every storage array to None, size to 0 and
\* head to -1, clears latest_next_state and leaves seen_size as it was
C9_ResetClearsAllButSeenSize ==
    [][ret'.op = "reset" =>
          /\ states' = NoneList(max_size)
          /\ actions' = NoneList(max_size)
          /\ rewards' = NoneList(max_size)
          /\ next_states' = NoneList(max_size)
          /\ dones' = NoneList(max_size)
          /\ size' = 0
          /\ head' = -1
          /\ latest_next_state' = None
          /\ seen_size' = seen_size]_vars

C9_Witness ==
    /\ ret.op = "reset"
    /\ seen_size > max_size
    /\ size = 0
    /\ head = -1
    /\ latest_next_state = None

\* C10: seen_size is the number of transitions inserted since construction: an
\* insert adds exactly one, no other call changes it, it never decreases, and
\* it is at least size without being bounded by max_size
C10_SeenSizeCountsAllInserts ==
    /\ [](seen_size = n_inserted /\ seen_size >= size)
    /\ [][/\ Inserts => seen_size' = seen_size + 1
          /\ ~Inserts => seen_size' = seen_size
          /\ seen_size' >= seen_size]_vars

C10_Witness ==
    /\ seen_size > max_size
    /\ seen_size > size
    /\ size > 0
    /\ ret.op = "update"

\* C11: sample() on an empty memory (before any insert or after reset())
\* raises instead of returning a batch, with and without CER, and leaves
\* size, head, seen_size, batch_idxs and the storage as they were
C11_SampleOfEmptyRaises ==
    [][(ret'.op = "sample" /\ size = 0) =>
          /\ ret'.raised # ""
          /\ ret'.out = NoValue
          /\ UNCHANGED <<size, head, seen_size, batch_idxs, latest_next_state,
                         states, actions, rewards, next_states, dones>>]_vars

C11_Witness ==
    /\ ret.op = "sample"
    /\ ret.raised = "ValueError"
    /\ use_cer
    /\ seen_size > 0
    /\ batch_idxs # None
    /\ size = 0

\* C15: the memory moves only along EMPTY (size = 0), FILLING
\* (0 < size < max_size), FULL (size = max_size): an insert never decreases
\* size, sample() and an episode-boundary update leave the phase alone, a FULL
\* memory stays FULL under inserts, and only reset() leads back to EMPTY
C15_PhasesOnlyAdvance ==
    [][/\ Inserts => (size' >= size /\ size' <= size + 1 /\ size' > 0)
       /\ (Inserts /\ size = max_size) => size' = max_size
       /\ (ret'.op = "sample" \/ (ret'.op = "update" /\ ~Inserts)) => size' = size
       /\ size' < size => (ret'.op = "reset" /\ size' = 0)
       /\ ret'.op = "reset" => size' = 0]_vars

C15_Witness ==
    /\ size = max_size
    /\ max_size >= 2
    /\ Len(inserted) > max_size
    /\ seen_size > Len(inserted)
    /\ ret.op = "update"

\* C17: while at most max_size transitions were inserted since the last reset
\* (so head = size - 1), the next state returned for a drawn index i is
\* latest_next_state when i is the head and the state in slot i + 1 otherwise
C17_ResolutionBeforeWrap ==
    (Sampled /\ Len(inserted) <= max_size) =>
        /\ head = size - 1
        /\ \A k \in DOMAIN batch_idxs :
               ret.out.next_states[k] =
                   IF batch_idxs[k] = head THEN latest_next_state
                   ELSE states[batch_idxs[k] + 2]

C17_Witness ==
    /\ Sampled
    /\ Len(inserted) <= max_size
    /\ batch_size = 2
    /\ batch_idxs[1] # head
    /\ batch_idxs[2] = head
    /\ states[1] # latest_next_state
    /\ ret.out.next_states[1] # ret.out.next_states[2]

\* C18: head = -1 exactly when size = 0, and otherwise 0 <= head < size, so
\* the index CER forces into a batch is that of a written slot
C18_HeadWithinOccupiedRange ==
    /\ head = -1 <=> size = 0
    /\ size > 0 => (0 <= head /\ head < size /\ states[head + 1] # None)
    /\ (Sampled /\ use_cer) => states[batch_idxs[batch_size] + 1] # None

C18_Witness ==
    /\ Sampled
    /\ use_cer
    /\ size = max_size
    /\ head < size - 1
    /\ seen_size > Len(inserted)

\* C20: every index _sample_next_states reads self.states at lies in
\* 0..size-1 and is that of a written slot; a position whose index + 1 equals
\* size reads slot 0 as a placeholder and then receives latest_next_state
C20_NextStateReadsStayInRange ==
    Sampled =>
        \A k \in DOMAIN batch_idxs :
            LET read == ns_batch_idxs(batch_idxs)[k] IN
            /\ 0 <= read
            /\ read <= size - 1
            /\ states[read + 1] # None
            /\ batch_idxs[k] + 1 = size =>
                   (read = 0 /\ ret.out.next_states[k] = latest_next_state)
            /\ batch_idxs[k] + 1 # size =>
                   (read = batch_idxs[k] + 1 /\ ret.out.next_states[k] = states[read + 1])

C20_Witness ==
    /\ Sampled
    /\ batch_size = 2
    /\ size < max_size
    /\ size >= 2
    /\ batch_idxs[1] + 1 = size
    /\ batch_idxs[2] + 1 # size

\* C14 as stated: latest_next_state is None when nothing was inserted since
\* the last reset and otherwise equals the (transformed) next_state argument of
\* the most recent insert
C14_LatestNextStateIsArgument ==
    latest_next_state =
        IF inserted = <<>> THEN None
        ELSE Some(inserted[Len(inserted)].next_state)

\* C14, amended: latest_next_state is None when nothing was inserted since the
\* last reset and otherwise the float16 conversion of the (transformed)
\* next_state argument of the most recent insert; every insert overwrites it
\* and no call other than an insert or reset() changes it
C14_LatestNextStateIsFloat16OfArgument ==
    /\ [](latest_next_state =
            IF inserted = <<>> THEN None
            ELSE Some(astype_float16(cls, inserted[Len(inserted)].next_state)))
    /\ [][Inserts =>
            latest_next_state' =
                Some(astype_float16(cls, inserted'[Len(inserted')].next_state))]_vars
    /\ [][(~Inserts /\ ret'.op # "reset") => UNCHANGED latest_next_state]_vars

C14_Witness ==
    /\ Len(inserted) >= 2
    /\ inserted[Len(inserted)].next_state = 2049
    /\ inserted[Len(inserted) - 1].next_state = 2
    /\ latest_next_state = Some(2048)
    /\ ret.op = "sample"

\* the last call was an update() that signalled the start of an episode
EpisodeStart == ret.op = "update" /\ isnan(ret.arg.reward) /\ ~is_venv

\* the last call was an update() that inserted a transition
Inserted == ret.op = "update" /\ ~(isnan(ret.arg.reward) /\ ~is_venv)

\* the window filled with zero-valued states
ZeroWindow == [i \in 1..WindowLen |-> 0]

C13_ConcatWindowIsZeroAfterReset ==
    (cls = "ConcatReplay" /\ (EpisodeStart \/ ret.op = "reset")) =>
        /\ Len(state_buffer) = WindowLen
        /\ \A i \in DOMAIN state_buffer : state_buffer[i] = 0
        /\ \A s \in RawStates :
               preprocess_state(cls, state_buffer, s, FALSE) = ZeroWindow

C13_Witness ==
    /\ cls = "ConcatReplay"
    /\ EpisodeStart
    /\ size > 0
    /\ states[head + 1] # Some(ZeroWindow)
    /\ state_buffer = ZeroWindow

\* C16: an update() of SeqReplay or ConcatReplay that is not an episode
\* boundary leaves the window as it was, contents and length; the window
\* takes a new observation only in the caller's first-sight preprocess_state
C16_UpdateLeavesWindowAlone ==
    /\ [][(Windowed(cls) /\ ret'.op = "update"
              /\ ~(isnan(ret'.arg.reward) /\ ~is_venv)) =>
            (state_buffer' = state_buffer /\ Len(state_buffer') = WindowLen)]_vars
    /\ [][(Windowed(cls) /\ state_buffer' # state_buffer) =>
            \/ /\ ret'.op = "preprocess_state"
               /\ state_buffer' = Append(Tail(state_buffer), ret'.arg)
            \/ /\ ret'.op = "reset" \/ ret'.op = "update"
               /\ state_buffer' = ZeroWindow]_vars

C16_Witness ==
    /\ Windowed(cls)
    /\ Inserted
    /\ state_buffer # ZeroWindow
    /\ state_buffer[WindowLen] # ret.arg.next_state
    /\ state_buffer[WindowLen] # ret.arg.state
    /\ Len(inserted) = 2

\* C19 as stated: a non-boundary update() of SeqReplay or ConcatReplay stores
\* at head the stacked or concatenated current window and sets
\* latest_next_state to the same value
C19_StoredStateIsWindow ==
    (Windowed(cls) /\ Inserted) =>
        /\ states[head + 1] = Some(state_buffer)
        /\ latest_next_state = states[head + 1]

\* C19, amended: a non-boundary update() of SeqReplay or ConcatReplay stores
\* at head the float16 conversion of the stacked or concatenated current
\* window and sets latest_next_state to the same value, whatever the raw
\* state and next_state arguments are
C19_StoredStateIsFloat16OfWindow ==
    (Windowed(cls) /\ Inserted) =>
        /\ states[head + 1] = Some(astype_float16(cls, state_buffer))
        /\ latest_next_state = states[head + 1]
        /\ inserted[Len(inserted)].state = state_buffer
        /\ inserted[Len(inserted)].next_state = state_buffer

C19_Witness ==
    /\ Windowed(cls)
    /\ Inserted
    /\ ret.arg.state # ret.arg.next_state
    /\ state_buffer[WindowLen] = 2049
    /\ states[head + 1] = Some(astype_float16(cls, state_buffer))
    /\ states[head + 1] # Some(state_buffer)
    /\ latest_next_state = states[head + 1]

====
